---- MODULE Spec2Model ----
(***************************************************************************)
(* Model of the HIL/HaaS client-server boundary:                           *)
(*   src/haas/api_server.py  - api_function (error-translating decorator)  *)
(*                             and the /user/<username> endpoint           *)
(*   src/hil/client/base.py  - ClientBase.object_url, check_response,      *)
(*                             _find_reserved, check_reserved and the      *)
(*                             check_reserved_chars argument guard         *)
(*                                                                         *)
(* Python strings are TLA+ strings; a character is a string of length 1.   *)
(* Python values are tagged records [t |-> type, v |-> payload].           *)
(***************************************************************************)
EXTENDS Integers, Sequences, FiniteSets, TLC

VARIABLES pc,        \* the function whose invocation was executed last
          reserved,  \* frame of the last check_reserved call
          guard,     \* frame of the last reserved_wrap call
          urlcall,   \* frame of the last ClientBase.object_url call
          server,    \* frame of the last api_function.wrapped invocation
          response,  \* HTTP response in flight to the client
          client     \* frame of the last ClientBase.check_response call

vars == <<pc, reserved, guard, urlcall, server, response, client>>

\* No invocation of the component is in progress or recorded.
Idle == [t |-> "idle"]

-----------------------------------------------------------------------------
(* Bounds of the model *)

MaxStrLen == 3     \* longest string handed to check_reserved
MaxBodyLen == 2    \* longest enumerated (not hand-picked) response body
MaxSegs == 2       \* most path segments handed to object_url

-----------------------------------------------------------------------------
(* Strings *)

Chr(s, i) == SubSeq(s, i, i)

\* s[i:] of Python, 1-based
From(s, i) == SubSeq(s, i, Len(s))

\* sub occurs at position i of s
At(s, i, sub) == /\ i >= 1
                 /\ i + Len(sub) - 1 <= Len(s)
                 /\ SubSeq(s, i, i + Len(sub) - 1) = sub

\* Python's  sub in s
Contains(s, sub) == \E i \in 1..(Len(s) + 1) : At(s, i, sub)

\* all strings over alphabet A of length exactly n / at most n
RECURSIVE StringsOfLen(_, _)
StringsOfLen(A, n) ==
    IF n = 0 THEN {""}
    ELSE {s \o c : s \in StringsOfLen(A, n - 1), c \in A}

StringsUpTo(A, n) == UNION {StringsOfLen(A, k) : k \in 0..n}

\* the characters of s, in order
Chars(s) == [i \in 1..Len(s) |-> Chr(s, i)]

\* Python's  sep.join(parts)
RECURSIVE join(_, _)
join(sep, parts) ==
    IF parts = <<>> THEN ""
    ELSE IF Len(parts) = 1 THEN parts[1]
    ELSE parts[1] \o sep \o join(sep, Tail(parts))

-----------------------------------------------------------------------------
(* Reserved-character validator: _find_reserved, check_reserved *)

Lower == {"a","b","c","d","e","f","g","h","i","j","k","l","m",
          "n","o","p","q","r","s","t","u","v","w","x","y","z"}
Upper == {"A","B","C","D","E","F","G","H","I","J","K","L","M",
          "N","O","P","Q","R","S","T","U","V","W","X","Y","Z"}
Digits == {"0","1","2","3","4","5","6","7","8","9"}

\* complement of the class  [^A-Za-z0-9 $_.+!*'(),-]
PlainClass == Lower \cup Upper \cup Digits \cup
              {" ", "$", "_", ".", "+", "!", "*", "'", "(", ")", ",", "-"}

\* complement of the class  [^A-Za-z0-9 /$_.+!*'(),-]
SlashClass == PlainClass \cup {"/"}

\* end (exclusive) of the maximal run of characters outside `allowed`
\* that starts at position i: the greedy  +  of the pattern
RECURSIVE RunEnd(_, _, _)
RunEnd(allowed, s, i) ==
    IF i <= Len(s) /\ Chr(s, i) \notin allowed
    THEN RunEnd(allowed, s, i + 1)
    ELSE i

\* re.findall(p, string) for p = [^allowed]+ : the non-overlapping maximal
\* runs of characters outside `allowed`, left to right
RECURSIVE re_findall(_, _, _)
re_findall(allowed, s, i) ==
    IF i > Len(s) THEN <<>>
    ELSE IF Chr(s, i) \in allowed THEN re_findall(allowed, s, i + 1)
    ELSE LET j == RunEnd(allowed, s, i)
         IN  <<SubSeq(s, i, j - 1)>> \o re_findall(allowed, s, j)

\* list(x for l in runs for x in l)
RECURSIVE Flatten(_)
Flatten(runs) ==
    IF runs = <<>> THEN <<>>
    ELSE Chars(Head(runs)) \o Flatten(Tail(runs))

\* Variant of _find_reserved that uses the slash-permitting pattern whatever
\* slashes_ok says.
_find_reserved_any_slash(string, slashes_ok) ==
    Flatten(re_findall(SlashClass, string, 1))

_find_reserved(string, slashes_ok) ==
    LET p == IF slashes_ok THEN SlashClass ELSE PlainClass
    IN  Flatten(re_findall(p, string, 1))

\* repr() of a one-character Python 2 str
repr_char(c) ==
    IF c = "\n" THEN "'\\n'"
    ELSE IF c = "\\" THEN "'\\\\'"
    ELSE IF c = "'" THEN "\"'\""
    ELSE "'" \o c \o "'"

\* str() of a list of one-character strings
str_list(l) == "[" \o join(", ", [i \in 1..Len(l) |-> repr_char(l[i])]) \o "]"

\* Outcome of a Python call: a normal return or a raised exception.
Return(value) == [kind |-> "return", value |-> value]
Raise(cls, message) == [kind |-> "raise", cls |-> cls, message |-> message]

PyNone == [t |-> "None", v |-> ""]
PyStr(s) == [t |-> "str", v |-> s]

check_reserved(obj_type, obj_string, slashes_ok) ==
    LET bad_chars == _find_reserved(obj_string, slashes_ok)
    IN  IF bad_chars # <<>>
        THEN Raise("BadArgumentError",
                   obj_type \o " may not contain: " \o str_list(bad_chars))
        ELSE Return(PyNone)

\* characters the strings handed to the validator are made of: a letter, a
\* digit, a space, a member of the literal set, the slash, and reserved
\* characters, two of which repr() renders escaped
Alphabet == {"a", "7", " ", "-", "/", "?", "#", "\n", "\\"}
ObjTypes == {"username", "path"}

CheckReserved ==
    \E obj_type \in ObjTypes, obj_string \in StringsUpTo(Alphabet, MaxStrLen),
       slashes_ok \in BOOLEAN :
        /\ pc = "idle"
        /\ pc' = "check_reserved"
        /\ reserved' = [obj_type |-> obj_type, obj_string |-> obj_string,
                        slashes_ok |-> slashes_ok,
                        bad_chars |-> _find_reserved(obj_string, slashes_ok),
                        out |-> check_reserved(obj_type, obj_string, slashes_ok)]
        /\ guard' = Idle /\ urlcall' = Idle /\ server' = Idle
        /\ response' = Idle /\ client' = Idle

-----------------------------------------------------------------------------
(* Argument guard: check_reserved_chars and its reserved_wrap *)

Range(f) == {f[x] : x \in DOMAIN f}

\* the loop of reserved_wrap over zip(outer_args, args[1:]); the first
\* check_reserved that raises ends it
RECURSIVE check_zip(_, _, _)
check_zip(argnames, argvals, slashes_ok) ==
    IF argnames = <<>> \/ argvals = <<>> THEN Return(PyNone)
    ELSE LET argname == Head(argnames)
             argval == Head(argvals)
             r == IF argname \notin Range(slashes_ok)
                  THEN check_reserved(argname, argval, FALSE)
                  ELSE check_reserved(argname, argval, TRUE)
         IN  IF r.kind = "raise" THEN r
             ELSE check_zip(Tail(argnames), Tail(argvals), slashes_ok)

\* reserved_wrap: out is what the caller gets, invoked tells whether the
\* wrapped f was called with the arguments of the call
reserved_wrap(outer_args, outer_kwargs, args, kwargs) ==
    LET slashes_ok == IF "slashes_ok" \in DOMAIN outer_kwargs
                      THEN outer_kwargs["slashes_ok"]
                      ELSE <<>>
        r == check_zip(outer_args, Tail(args), slashes_ok)
    IN  IF r.kind = "raise"
        THEN [out |-> r, invoked |-> FALSE]
        ELSE [out |-> Return(PyNone), invoked |-> TRUE]

\* The guarded client operation f(self, username, path) and the ways it is
\* decorated.
Params == <<"username", "path">>
Decorations ==
    { [outer_args |-> <<"username">>, outer_kwargs |-> <<>>],
      [outer_args |-> <<"username", "path">>, outer_kwargs |-> <<>>],
      [outer_args |-> <<"username", "path">>,
       outer_kwargs |-> [slashes_ok |-> <<"path">>]] }
ArgValues == {"bob", "../etc", "a?b"}

\* A call of the guarded operation: the first npos parameters are passed
\* positionally after self, the others by keyword.
ReservedWrap ==
    \E deco \in Decorations, npos \in 0..Len(Params),
       vals \in [1..Len(Params) -> ArgValues] :
        LET args == <<"self">> \o SubSeq(vals, 1, npos)
            kwargs == [n \in {Params[i] : i \in (npos + 1)..Len(Params)} |->
                         vals[CHOOSE i \in 1..Len(Params) : Params[i] = n]]
        IN  /\ pc = "idle"
            /\ pc' = "reserved_wrap"
            /\ guard' = [deco |-> deco, args |-> args, kwargs |-> kwargs,
                         vals |-> vals,
                         res |-> reserved_wrap(deco.outer_args,
                                               deco.outer_kwargs, args, kwargs)]
            /\ reserved' = Idle /\ urlcall' = Idle /\ server' = Idle
            /\ response' = Idle /\ client' = Idle

-----------------------------------------------------------------------------
(* URL construction: ClientBase.object_url, by urlparse.urljoin *)

\* position of the first occurrence of character c in s at or after i,
\* Len(s) + 1 when there is none
RECURSIVE find(_, _, _)
find(s, c, i) ==
    IF i > Len(s) THEN Len(s) + 1
    ELSE IF Chr(s, i) = c THEN i
    ELSE find(s, c, i + 1)

\* s.split(sep) for a one-character sep
RECURSIVE split(_, _)
split(s, sep) ==
    LET k == find(s, sep, 1)
    IN  IF k > Len(s) THEN <<s>>
        ELSE <<SubSeq(s, 1, k - 1)>> \o split(From(s, k + 1), sep)

scheme_chars == Lower \cup Upper \cup Digits \cup {"+", "-", "."}

\* urlparse of a URL without parameters, query or fragment:
\* [scheme, netloc, path]
urlparse(url, default_scheme) ==
    LET i == find(url, ":", 1)
        has_scheme ==
            /\ i > 1 /\ i <= Len(url)
            /\ \A k \in 1..(i - 1) : Chr(url, k) \in scheme_chars
            /\ \/ SubSeq(url, 1, i - 1) = "http"
               \/ /\ i < Len(url)
                  /\ \E k \in (i + 1)..Len(url) : Chr(url, k) \notin Digits
        scheme == IF has_scheme THEN SubSeq(url, 1, i - 1) ELSE default_scheme
        rest == IF has_scheme THEN From(url, i + 1) ELSE url
        has_netloc == At(rest, 1, "//")
        delim == find(rest, "/", 3)
    IN  [scheme |-> scheme,
         netloc |-> IF has_netloc THEN SubSeq(rest, 3, delim - 1) ELSE "",
         path |-> IF has_netloc THEN From(rest, delim) ELSE rest]

uses_relative == {"http", "https", "ftp", "file", ""}
uses_netloc == {"http", "https", "ftp", "file", ""}

urlunparse(scheme, netloc, path) ==
    LET u1 == IF netloc # "" \/ (scheme # "" /\ scheme \in uses_netloc
                                 /\ ~At(path, 1, "//"))
              THEN "//" \o netloc \o
                   (IF path # "" /\ ~At(path, 1, "/") THEN "/" \o path ELSE path)
              ELSE path
    IN  IF scheme # "" THEN scheme \o ":" \o u1 ELSE u1

\* while '.' in segments: segments.remove('.')
RemoveDots(segments) == SelectSeq(segments, LAMBDA x : x # ".")

\* the loop that deletes a ".." together with the segment before it
RECURSIVE CollapseParents(_)
CollapseParents(segments) ==
    LET hits == {k \in 2..(Len(segments) - 1) :
                    /\ segments[k] = ".."
                    /\ segments[k - 1] \notin {"", ".."}}
    IN  IF hits = {} THEN segments
        ELSE LET k == CHOOSE h \in hits : \A g \in hits : h <= g
             IN  CollapseParents(SubSeq(segments, 1, k - 2) \o
                                 SubSeq(segments, k + 1, Len(segments)))

urljoin(base, url) ==
    IF base = "" THEN url
    ELSE IF url = "" THEN base
    ELSE
    LET b == urlparse(base, "")
        u == urlparse(url, b.scheme)
        netloc == b.netloc
        seg0 == LET bs == split(b.path, "/")
                IN  SubSeq(bs, 1, Len(bs) - 1) \o split(u.path, "/")
        seg1 == IF seg0[Len(seg0)] = "."
                THEN [seg0 EXCEPT ![Len(seg0)] = ""] ELSE seg0
        seg2 == CollapseParents(RemoveDots(seg1))
        seg3 == IF seg2 = <<"", "..">> THEN <<"", "">>
                ELSE IF Len(seg2) >= 2 /\ seg2[Len(seg2)] = ".."
                THEN SubSeq(seg2, 1, Len(seg2) - 2) \o <<"">>
                ELSE seg2
    IN  IF u.scheme # b.scheme \/ u.scheme \notin uses_relative THEN url
        ELSE IF u.scheme \in uses_netloc /\ u.netloc # ""
        THEN urlunparse(u.scheme, u.netloc, u.path)
        ELSE IF At(u.path, 1, "/") THEN urlunparse(u.scheme, netloc, u.path)
        ELSE IF u.path = "" THEN urlunparse(u.scheme, netloc, b.path)
        ELSE urlunparse(u.scheme, netloc, join("/", seg3))

object_url(endpoint, args) ==
    LET rel == join("/", args)
    IN  urljoin(endpoint, rel)

Endpoints == {"http://127.0.0.1", "http://127.0.0.1:5000/",
              "http://hil.example/api", "http://hil.example/api/"}
Segments == {"user", "bob", "..", "/etc", "//evil.example",
             "http://evil.example/x"}

RECURSIVE SeqsOfLen(_, _)
SeqsOfLen(S, n) ==
    IF n = 0 THEN {<<>>}
    ELSE {Append(q, x) : q \in SeqsOfLen(S, n - 1), x \in S}

ObjectUrl ==
    \E endpoint \in Endpoints, n \in 0..MaxSegs :
      \E args \in SeqsOfLen(Segments, n) :
        /\ pc = "idle"
        /\ pc' = "object_url"
        /\ urlcall' = [endpoint |-> endpoint, args |-> args,
                       url |-> object_url(endpoint, args)]
        /\ reserved' = Idle /\ guard' = Idle /\ server' = Idle
        /\ response' = Idle /\ client' = Idle

-----------------------------------------------------------------------------
(* Python values *)

PyNum(n) == [t |-> "num", v |-> n]
PyBool(b) == [t |-> "bool", v |-> b]
PyList(l) == [t |-> "list", v |-> l]
PyDict(d) == [t |-> "dict", v |-> d]
PyTuple(l) == [t |-> "tuple", v |-> l]

\* bool(x)
Truthy(x) ==
    CASE x.t = "None" -> FALSE
      [] x.t = "str" -> x.v # ""
      [] x.t = "num" -> x.v # 0
      [] x.t = "bool" -> x.v
      [] OTHER -> DOMAIN x.v # {}

-----------------------------------------------------------------------------
(* Server: api_function and the /user/<username> endpoint *)

\* api.APIError and its subclasses; every other exception class is not one
APIErrorClasses == {"APIError", "DuplicateError", "NotFoundError"}
OtherClasses == {"KeyError", "OperationalError"}

\* user(username): PUT reads request.form['password'], which raises when the
\* form has no such field, and returns api.user_create's result; DELETE
\* returns api.user_delete's result.  api_outcome is what the api routine does.
user(method, form, api_outcome) ==
    IF method = "PUT"
    THEN IF "password" \in DOMAIN form
         THEN api_outcome
         ELSE Raise("BadRequestKeyError", "password")
    ELSE api_outcome

\* Variant of wrapped that reports every exception to the client.
wrapped_catch_all(f_outcome) ==
    IF f_outcome.kind = "raise"
    THEN Return(PyTuple(<<f_outcome.message, 400>>))
    ELSE IF ~Truthy(f_outcome.value) THEN Return(PyStr("")) ELSE Return(PyNone)

\* Variant of wrapped that reports only api.APIError itself, not its
\* subclasses.
wrapped_exact_class(f_outcome) ==
    IF f_outcome.kind = "raise"
    THEN IF f_outcome.cls = "APIError"
         THEN Return(PyTuple(<<f_outcome.message, 400>>))
         ELSE f_outcome
    ELSE IF ~Truthy(f_outcome.value) THEN Return(PyStr("")) ELSE Return(PyNone)

\* wrapped: f_outcome is what the decorated f did; the result is what
\* wrapped does.  A truthy resp falls off the end of wrapped: None.
wrapped(f_outcome) ==
    IF f_outcome.kind = "raise"
    THEN IF f_outcome.cls \in APIErrorClasses
         THEN Return(PyTuple(<<f_outcome.message, 400>>))
         ELSE f_outcome
    ELSE IF ~Truthy(f_outcome.value) THEN Return(PyStr("")) ELSE Return(PyNone)

Methods == {"PUT", "DELETE"}
Forms == {<<>>, [password |-> "secret"]}
Messages == {"user exists", "no such user", "",
             "{\"type\":\"DuplicateError\",\"msg\":\"user exists\"}"}
ApiValues == {PyNone, PyStr(""), PyStr("created"), PyNum(0), PyNum(1),
              PyBool(FALSE), PyBool(TRUE)}
ApiOutcomes ==
    {Return(v) : v \in ApiValues} \cup
    {Raise(c, m) : c \in APIErrorClasses \cup OtherClasses, m \in Messages}

\* One request to /user/<username>, handled by the decorated endpoint.
Wrapped ==
    \E method \in Methods, form \in Forms, api_outcome \in ApiOutcomes :
        /\ pc = "idle"
        /\ pc' = "wrapped"
        /\ server' = [method |-> method, form |-> form,
                      f_out |-> user(method, form, api_outcome),
                      out |-> wrapped(user(method, form, api_outcome))]
        /\ reserved' = Idle /\ guard' = Idle /\ urlcall' = Idle
        /\ response' = Idle /\ client' = Idle

\* What the Flask application makes of the view's outcome: a (body, status)
\* pair and a string are the response; None and an exception that is not an
\* HTTPException are an internal server error; BadRequestKeyError is an
\* HTTPException with status 400.
ErrorPage(status) ==
    IF status = 400 THEN "<html><title>400 Bad Request</title></html>"
    ELSE "<html><title>500 Internal Server Error</title></html>"

flask_response(out) ==
    IF out.kind = "raise"
    THEN IF out.cls = "BadRequestKeyError"
         THEN [status_code |-> 400, content |-> ErrorPage(400)]
         ELSE [status_code |-> 500, content |-> ErrorPage(500)]
    ELSE IF out.value.t = "tuple"
    THEN [status_code |-> out.value.v[2], content |-> out.value.v[1]]
    ELSE IF out.value.t = "str"
    THEN [status_code |-> 200, content |-> out.value.v]
    ELSE [status_code |-> 500, content |-> ErrorPage(500)]

\* The response of the server travels to the client.
Deliver ==
    /\ pc = "wrapped"
    /\ pc' = "deliver"
    /\ response' = flask_response(server.out)
    /\ UNCHANGED <<reserved, guard, urlcall, server, client>>

-----------------------------------------------------------------------------
(* json.loads, for texts without string escapes, fractions and exponents *)

Whitespace == {" ", "\t", "\n", "\r"}

RECURSIVE skip_ws(_, _)
skip_ws(s, i) ==
    IF i <= Len(s) /\ Chr(s, i) \in Whitespace THEN skip_ws(s, i + 1) ELSE i

NoJSON == [ok |-> FALSE]
Parsed(v, next) == [ok |-> TRUE, v |-> v, next |-> next]

\* end (exclusive) of the run of digits that starts at i
RECURSIVE DigitsEnd(_, _)
DigitsEnd(s, i) ==
    IF i <= Len(s) /\ Chr(s, i) \in Digits THEN DigitsEnd(s, i + 1) ELSE i

DigitVal(c) == CHOOSE n \in 0..9 : Chr("0123456789", n + 1) = c

RECURSIVE IntVal(_)
IntVal(s) ==
    IF s = "" THEN 0
    ELSE 10 * IntVal(SubSeq(s, 1, Len(s) - 1)) + DigitVal(Chr(s, Len(s)))

\* a string literal whose opening quote is at i
parse_string(s, i) ==
    LET k == find(s, "\"", i + 1)
    IN  IF k > Len(s) \/ \E n \in (i + 1)..(k - 1) : Chr(s, n) \in {"\n", "\t", "\r"}
        THEN NoJSON
        ELSE Parsed(PyStr(SubSeq(s, i + 1, k - 1)), k + 1)

\* an integer whose first digit is at i; a leading 0 stands alone
parse_number(s, i) ==
    LET e == IF Chr(s, i) = "0" THEN i + 1 ELSE DigitsEnd(s, i)
    IN  Parsed(PyNum(IntVal(SubSeq(s, i, e - 1))), e)

RECURSIVE parse_value(_, _), parse_elements(_, _, _), parse_members(_, _, _)

\* the value that starts at i
parse_value(s, i) ==
    IF i > Len(s) THEN NoJSON
    ELSE LET c == Chr(s, i)
         IN  CASE c = "\"" -> parse_string(s, i)
               [] c = "{" ->
                    LET j == skip_ws(s, i + 1)
                    IN  IF At(s, j, "}") THEN Parsed(PyDict(<<>>), j + 1)
                        ELSE parse_members(s, j, <<>>)
               [] c = "[" ->
                    LET j == skip_ws(s, i + 1)
                    IN  IF At(s, j, "]") THEN Parsed(PyList(<<>>), j + 1)
                        ELSE parse_elements(s, j, <<>>)
               [] c \in Digits -> parse_number(s, i)
               [] At(s, i, "null") -> Parsed(PyNone, i + 4)
               [] At(s, i, "true") -> Parsed(PyBool(TRUE), i + 4)
               [] At(s, i, "false") -> Parsed(PyBool(FALSE), i + 5)
               [] OTHER -> NoJSON

\* the elements of an array from i on, after the elements acc
parse_elements(s, i, acc) ==
    LET r == parse_value(s, i)
    IN  IF ~r.ok THEN NoJSON
        ELSE LET j == skip_ws(s, r.next)
             IN  IF At(s, j, "]") THEN Parsed(PyList(Append(acc, r.v)), j + 1)
                 ELSE IF At(s, j, ",")
                 THEN parse_elements(s, skip_ws(s, j + 1), Append(acc, r.v))
                 ELSE NoJSON

\* the members of an object from i on, after the members acc; a repeated
\* key keeps its last value
parse_members(s, i, acc) ==
    IF ~At(s, i, "\"") THEN NoJSON
    ELSE LET k == parse_string(s, i)
         IN  IF ~k.ok THEN NoJSON
             ELSE LET j == skip_ws(s, k.next)
                  IN  IF ~At(s, j, ":") THEN NoJSON
                      ELSE LET r == parse_value(s, skip_ws(s, j + 1))
                           IN  IF ~r.ok THEN NoJSON
                               ELSE LET d == (k.v.v :> r.v) @@ acc
                                        e == skip_ws(s, r.next)
                                    IN  IF At(s, e, "}")
                                        THEN Parsed(PyDict(d), e + 1)
                                        ELSE IF At(s, e, ",")
                                        THEN parse_members(s, skip_ws(s, e + 1), d)
                                        ELSE NoJSON

\* json.loads(s): ok is FALSE where it raises ValueError
json_loads(s) ==
    LET r == parse_value(s, skip_ws(s, 1))
    IN  IF ~r.ok THEN NoJSON
        ELSE IF skip_ws(s, r.next) # Len(s) + 1 THEN NoJSON
        ELSE r

-----------------------------------------------------------------------------
(* Client: ClientBase.check_response *)

RaiseFailedAPICall(error_type, message) ==
    [kind |-> "raise", cls |-> "FailedAPICallException",
     error_type |-> error_type, message |-> message]

\* e[key]: a dict without the key raises KeyError, a value that is no dict
\* raises TypeError
getitem(e, key) ==
    IF e.t = "dict"
    THEN IF key \in DOMAIN e.v THEN Return(e.v[key]) ELSE Raise("KeyError", key)
    ELSE Raise("TypeError", key)

\* Variant of check_response whose success range includes status 300.
check_response_incl_300(resp) ==
    LET j == json_loads(resp.content)
    IN  IF 200 <= resp.status_code /\ resp.status_code <= 300
        THEN IF j.ok THEN Return(j.v) ELSE Return(PyNone)
        ELSE IF ~j.ok THEN Return(PyStr(resp.content))
        ELSE IF getitem(j.v, "type").kind = "raise" THEN getitem(j.v, "type")
        ELSE IF getitem(j.v, "msg").kind = "raise" THEN getitem(j.v, "msg")
        ELSE RaiseFailedAPICall(getitem(j.v, "type").value,
                                getitem(j.v, "msg").value)

\* Variant of check_response that builds the exception with the two fields
\* of the body swapped.
check_response_swapped(resp) ==
    LET j == json_loads(resp.content)
    IN  IF 200 <= resp.status_code /\ resp.status_code < 300
        THEN IF j.ok THEN Return(j.v) ELSE Return(PyNone)
        ELSE IF ~j.ok THEN Return(PyStr(resp.content))
        ELSE IF getitem(j.v, "type").kind = "raise" THEN getitem(j.v, "type")
        ELSE IF getitem(j.v, "msg").kind = "raise" THEN getitem(j.v, "msg")
        ELSE RaiseFailedAPICall(getitem(j.v, "msg").value,
                                getitem(j.v, "type").value)

check_response(resp) ==
    LET j == json_loads(resp.content)
    IN  IF 200 <= resp.status_code /\ resp.status_code < 300
        THEN IF j.ok THEN Return(j.v) ELSE Return(PyNone)
        ELSE IF ~j.ok THEN Return(PyStr(resp.content))
        ELSE LET ty == getitem(j.v, "type")
                 msg == getitem(j.v, "msg")
             IN  IF ty.kind = "raise" THEN ty
                 ELSE IF msg.kind = "raise" THEN msg
                 ELSE RaiseFailedAPICall(ty.value, msg.value)

StatusCodes == {199, 200, 204, 299, 300, 400, 404, 500}
BodyAlphabet == {"{", "}", "[", "]", "\"", ":", ",", "1", "a", " "}
SampleBodies ==
    {"user exists",
     "<html><title>500 Internal Server Error</title></html>",
     "{\"type\":\"BadArgumentError\",\"msg\":\"bad name\"}",
     " { \"msg\" : \"no such user\" , \"type\" : \"NotFoundError\" } ",
     "{\"type\":\"E\",\"msg\":\"m\",\"detail\":[1,{\"a\":null}]}",
     "{\"type\":\"E\",\"type\":\"F\",\"msg\":\"m\"}",
     "{\"type\":\"NotFoundError\"}",
     "{\"msg\":\"bad name\"}",
     "{\"type\":1,\"msg\":[]}",
     "{\"type\":\"E\",\"msg\":\"m\"",
     "{\"type\":\"E\",\"msg\":\"m\"} x",
     "{\"users\":[\"alice\",\"bob\"]}",
     "[\"type\",\"msg\"]",
     "\"type msg\"",
     "[1, 1]", "[1,]", "{\"a\":1,}", "42", "007", "true", "false", "null",
     "nul"}
Bodies == SampleBodies \cup StringsUpTo(BodyAlphabet, MaxBodyLen)

\* The transport hands the client a response of some server or proxy.
Transport ==
    \E status_code \in StatusCodes, content \in Bodies :
        /\ pc = "idle"
        /\ pc' = "transport"
        /\ response' = [status_code |-> status_code, content |-> content]
        /\ reserved' = Idle /\ guard' = Idle /\ urlcall' = Idle
        /\ server' = Idle /\ client' = Idle

\* The client interprets the response in flight.
CheckResponse ==
    /\ pc \in {"transport", "deliver"}
    /\ pc' = "check_response"
    /\ client' = [out |-> check_response(response)]
    /\ UNCHANGED <<reserved, guard, urlcall, server, response>>

-----------------------------------------------------------------------------

Init == /\ pc = "idle"
        /\ reserved = Idle /\ guard = Idle /\ urlcall = Idle
        /\ server = Idle /\ response = Idle /\ client = Idle

\* The invocation is over; its frame is discarded (nothing is retained
\* between calls).
Finish ==
    /\ pc \in {"check_reserved", "reserved_wrap", "object_url", "check_response"}
    /\ pc' = "idle"
    /\ reserved' = Idle /\ guard' = Idle /\ urlcall' = Idle
    /\ server' = Idle /\ response' = Idle /\ client' = Idle

Next == \/ CheckReserved
        \/ ReservedWrap
        \/ ObjectUrl
        \/ Wrapped
        \/ Deliver
        \/ Transport
        \/ CheckResponse
        \/ Finish

Spec == Init /\ [][Next]_vars

-----------------------------------------------------------------------------
\* x holds the frame of an invocation
HasFrame(x) == "t" \notin DOMAIN x

-----------------------------------------------------------------------------
(* Properties of the server-side handler *)

EndpointReturned == HasFrame(server) /\ server.f_out.kind = "return"
EndpointRaisedAPIError ==
    /\ HasFrame(server)
    /\ server.f_out.kind = "raise"
    /\ server.f_out.cls \in APIErrorClasses
EndpointRaisedOther ==
    /\ HasFrame(server)
    /\ server.f_out.kind = "raise"
    /\ server.f_out.cls \notin APIErrorClasses

\* C1: when the wrapped endpoint returns normally the wrapper yields a
\* success response: the empty body '' for a falsy return value, the return
\* value itself for a non-falsy one, and never no response.
C1_NormalReturn ==
    EndpointReturned =>
        /\ server.out.kind = "return"
        /\ server.out.value # PyNone
        /\ ~Truthy(server.f_out.value) => server.out.value = PyStr("")
        /\ Truthy(server.f_out.value) => server.out.value = server.f_out.value
        /\ HasFrame(response) => response.status_code \in 200..299

\* C2: when the wrapped endpoint raises api.APIError or a subclass with
\* message m, the wrapper returns exactly the pair (m, 400), for PUT and for
\* DELETE; the response that travels has status 400 and body m.
C2_DomainError ==
    EndpointRaisedAPIError =>
        /\ server.out.kind = "return"
        /\ server.out.value.t = "tuple"
        /\ server.out.value.v = <<server.f_out.message, 400>>
        /\ HasFrame(response) =>
              /\ response.status_code = 400
              /\ response.content = server.f_out.message

C2_Witness ==
    /\ pc = "deliver"
    /\ server.method = "DELETE"
    /\ server.f_out = Raise("NotFoundError", "no such user")
    /\ response = [status_code |-> 400, content |-> "no such user"]

\* C3: when the wrapped endpoint raises an exception that is not an
\* api.APIError, the same exception propagates out of the wrapper; no
\* (message, 400) pair is returned, and the outcome differs from that of
\* every domain error.
C3_OtherErrorPropagates ==
    EndpointRaisedOther =>
        /\ server.out.kind = "raise"
        /\ server.out = server.f_out
        /\ server.out # Return(PyTuple(<<server.f_out.message, 400>>))
        /\ \A c \in APIErrorClasses, m \in Messages :
              server.out # wrapped(Raise(c, m))

C3_Witness ==
    /\ pc = "wrapped"
    /\ server.method = "PUT"
    /\ server.f_out = Raise("KeyError", "user exists")
    /\ server.out = Raise("KeyError", "user exists")

-----------------------------------------------------------------------------
(* Properties of the client's response interpreter *)

Checked == pc = "check_response"
Success == response.status_code >= 200 /\ response.status_code < 300

\* C4: for every response with a status outside [200,300), check_response
\* raises FailedAPICallException and never returns normally; when the body
\* is not JSON the failure's message is the raw body text.
C4_FailureAlwaysRaises ==
    (Checked /\ ~Success) =>
        /\ client.out.kind = "raise"
        /\ client.out.cls = "FailedAPICallException"
        /\ ~json_loads(response.content).ok =>
              client.out.message = PyStr(response.content)

\* C5: for a response with a status outside [200,300) whose body is a JSON
\* object with the fields 'type' and 'msg', check_response raises
\* FailedAPICallException with error_type the 'type' field and message the
\* 'msg' field.
C5_StructuredFailure ==
    /\ (Checked /\ ~Success /\ json_loads(response.content).ok) =>
          LET e == json_loads(response.content).v
          IN  (e.t = "dict" /\ {"type", "msg"} \subseteq DOMAIN e.v) =>
                  /\ client.out.kind = "raise"
                  /\ client.out.cls = "FailedAPICallException"
                  /\ client.out.error_type = e.v["type"]
                  /\ client.out.message = e.v["msg"]
    /\ (Checked /\ ~Success /\ response.content =
            "{\"type\":\"BadArgumentError\",\"msg\":\"bad name\"}") =>
          client.out = RaiseFailedAPICall(PyStr("BadArgumentError"),
                                          PyStr("bad name"))

C5_Witness ==
    /\ Checked
    /\ response.status_code = 404
    /\ response.content =
          " { \"msg\" : \"no such user\" , \"type\" : \"NotFoundError\" } "
    /\ client.out = RaiseFailedAPICall(PyStr("NotFoundError"),
                                       PyStr("no such user"))

\* C6: for a response with a status in [200,300), check_response never
\* raises; it returns the parsed value when the body is JSON and None when
\* it is not (a zero-length body, for one).  200 is inside the range, 300
\* is outside it.
C6_Success ==
    /\ (Checked /\ response.status_code \in 200..299) =>
          /\ client.out.kind = "return"
          /\ json_loads(response.content).ok =>
                client.out.value = json_loads(response.content).v
          /\ ~json_loads(response.content).ok => client.out.value = PyNone
          /\ response.content = "" => client.out.value = PyNone
          /\ response.content = "{\"users\":[\"alice\",\"bob\"]}" =>
                client.out.value =
                    PyDict([users |-> PyList(<<PyStr("alice"), PyStr("bob")>>)])
    /\ (Checked /\ response.status_code \in {199, 300}) =>
          /\ json_loads(response.content).ok => client.out.kind = "raise"
          /\ ~json_loads(response.content).ok => client.out.value # PyNone

C6_Witness ==
    /\ Checked
    /\ response.status_code = 299
    /\ response.content = "[1, 1]"
    /\ client.out = Return(PyList(<<PyNum(1), PyNum(1)>>))

-----------------------------------------------------------------------------
(* End to end: a domain error of the server, as the client sees it *)

\* C8: when the endpoint raises a domain error with message m and the
\* response api_function makes of it goes through check_response, the
\* client's caller gets a FailedAPICallException with the error's kind and
\* the message m.
C8_DomainErrorReachesCaller ==
    (Checked /\ EndpointRaisedAPIError) =>
        /\ client.out.kind = "raise"
        /\ client.out.cls = "FailedAPICallException"
        /\ client.out.error_type = PyStr(server.f_out.cls)
        /\ client.out.message = PyStr(server.f_out.message)

-----------------------------------------------------------------------------
(* Properties of the reserved-character validator *)

\* the allowed class as the documentation words it
Alnum == Lower \cup Upper \cup Digits
AllowedChar(c, slash_allowed) ==
    \/ c \in Alnum
    \/ c = " "
    \/ \E i \in 1..11 : c = Chr("$_.+!*'(),-", i)
    \/ slash_allowed /\ c = "/"

\* the characters of s outside the allowed class, one per occurrence, in
\* order of appearance
Offending(s, slash_allowed) ==
    SelectSeq(Chars(s), LAMBDA c : ~AllowedChar(c, slash_allowed))

\* how a character shows in the message: a control character and the
\* backslash are escaped
Shown(c) == IF c = "\n" THEN "\\n" ELSE IF c = "\\" THEN "\\\\" ELSE c

ValidatorFinds ==
    /\ reserved.bad_chars = Offending(reserved.obj_string, reserved.slashes_ok)
    /\ (reserved.bad_chars = <<>>) <=>
          \A i \in 1..Len(reserved.obj_string) :
              AllowedChar(Chr(reserved.obj_string, i), reserved.slashes_ok)
    /\ (reserved.out.kind = "raise") <=> (reserved.bad_chars # <<>>)
    /\ reserved.out.kind = "raise" =>
          /\ reserved.out.cls = "BadArgumentError"
          /\ Contains(reserved.out.message, reserved.obj_type)

-----------------------------------------------------------------------------
(* Properties of the argument guard *)

\* the value the call supplies for parameter number i of f
Supplied(i) == guard.vals[i]

\* some declared argument's value, however passed, has a character outside
\* the class allowed for its name
SomeDeclaredArgBad ==
    \E i \in 1..Len(Params) :
        /\ Params[i] \in Range(guard.deco.outer_args)
        /\ LET slash == /\ "slashes_ok" \in DOMAIN guard.deco.outer_kwargs
                        /\ Params[i] \in Range(guard.deco.outer_kwargs["slashes_ok"])
           IN  Offending(Supplied(i), slash) # <<>>

\* C7: when the value supplied for a declared argument name, however it is
\* passed, contains a character outside the class allowed for that name, the
\* wrapped operation is not invoked and BadArgumentError propagates.
C7_GuardBlocks ==
    (pc = "reserved_wrap" /\ SomeDeclaredArgBad) =>
        /\ ~guard.res.invoked
        /\ guard.res.out.kind = "raise"
        /\ guard.res.out.cls = "BadArgumentError"


-----------------------------------------------------------------------------
(* Properties of URL construction *)

\* the endpoint followed by the segments joined with "/"
UnderEndpoint(endpoint, args) ==
    (IF At(endpoint, Len(endpoint), "/") THEN endpoint ELSE endpoint \o "/")
        \o join("/", args)

\* C10: object_url returns a URL with the endpoint's scheme and authority
\* whose path is the endpoint's path prefix followed by the segments joined
\* in order with "/"; no segment replaces the authority or the base path.
C10_UrlUnderEndpoint ==
    (pc = "object_url" /\ urlcall.args # <<>>) =>
        /\ urlparse(urlcall.url, "").scheme = urlparse(urlcall.endpoint, "").scheme
        /\ urlparse(urlcall.url, "").netloc = urlparse(urlcall.endpoint, "").netloc
        /\ urlcall.url = UnderEndpoint(urlcall.endpoint, urlcall.args)

====
